---- MODULE Spec2Model ----
(***************************************************************************)
(* Model of the Reversi environment of reversi.py: the engine (reset,      *)
(* step, legality, flip ray-casting, reward and termination), the play()   *)
(* front end (cursor mode and text mode) and the module-level turn loop.   *)
(***************************************************************************)
EXTENDS Integers, FiniteSets, Sequences, TLC

(* ------------------------------ bounds --------------------------------- *)

\* largest board size the constructor is tried with
MaxN == 6

\* accepted steps explored per game (the 4x4 board is full after 12)
MaxSteps == 13

\* per game, how many accepted steps may differ from the first legal cell
MaxFree == 1

\* keys other than ENTER pressed in one session of the turn loop
MaxKeys == 2

\* length of a line typed in text mode
MaxText == 2

\* accepted steps per game of a caller that holds on to a snapshot
MaxSnapSteps == 2

\* cells a caller overwrites in the snapshot it holds
MaxWrites == 1

(* --------------------------- program state ----------------------------- *)

VARIABLES
    N,            \* self.N
    state,        \* self.state, the N x N board, indexed by <<row, col>>
    cur_player,   \* self.cur_player
    ret,          \* what the last call returned to its caller
    last,         \* the last call that wrote the board: operation, argument, cells
                  \* it flipped, accepted steps of the game before the call
    start_player, \* the player reset() drew for the running game
    accepted,     \* accepted steps since the last reset
    free,         \* accepted steps of this game that left the first legal cell
    pc,           \* the module-level script: "start", "key" (waiting in get_key),
                  \* "stopped" (left the loop), "crashed" (uncaught exception), "hung"
    play_coord,   \* play(): coord, the cursor cell
    play_d,       \* play(): d, the cursor delta of the last arrow key
    play_st,      \* play(): st, the copy of the board rendered with the cursor mark
    keys,         \* keys other than ENTER pressed in this session
    snap          \* the board snapshot a caller of step() holds: which array
                  \* object it is, its contents, how often the caller wrote to it

vars == <<N, state, cur_player, ret, last, start_player, accepted, free,
          pc, play_coord, play_d, play_st, keys, snap>>

Empty == 0

Players == {1, -1}

Coords == (0 .. N - 1) \X (0 .. N - 1)

\* the actions a caller submits: every cell index and two on each side of the range
Actions == -2 .. (N * N + 1)

(* ------------------------------ helpers -------------------------------- *)

\* the 8 unit directions
neighbours == {d \in (-1 .. 1) \X (-1 .. 1) : d[1] # 0 \/ d[2] # 0}

_is_in_board(coordinate) ==
    \A i \in 1 .. 2 : 0 <= coordinate[i] /\ coordinate[i] <= N - 1

_coordinate2idx(coordinate) == coordinate[1] * N + coordinate[2]

\* variant: column-major unravelling
_idx2coordinate_m(idx) == <<idx % N, idx \div N>>

_idx2coordinate(idx) == <<idx \div N, idx % N>>

\* variant: the action space is one cell short
action_space_contains_m(action) == action >= 0 /\ action < N * N - 1

action_space_contains(action) == action >= 0 /\ action < N * N

\* variant: only the 4 orthogonal neighbours are looked at
_has_occupied_neighbours_m(coordinate) ==
    \E d \in {e \in neighbours : e[1] = 0 \/ e[2] = 0} :
        LET n == <<coordinate[1] + d[1], coordinate[2] + d[2]>>
        IN  /\ n[1] >= 0 /\ n[1] < N
            /\ n[2] >= 0 /\ n[2] < N
            /\ state[n] # 0

_has_occupied_neighbours(coordinate) ==
    \E d \in neighbours :
        LET n == <<coordinate[1] + d[1], coordinate[2] + d[2]>>
        IN  /\ n[1] >= 0 /\ n[1] < N
            /\ n[2] >= 0 /\ n[2] < N
            /\ state[n] # 0

\* variant: the occupied-cell test is missing
_is_legal_action_m(action) ==
    IF ~action_space_contains(action) THEN FALSE
    ELSE IF ~_has_occupied_neighbours(_idx2coordinate(action)) THEN FALSE
    ELSE TRUE

_is_legal_action(action) ==
    IF ~action_space_contains(action) THEN FALSE
    ELSE IF state[_idx2coordinate(action)] # 0 THEN FALSE
    ELSE IF ~_has_occupied_neighbours(_idx2coordinate(action)) THEN FALSE
    ELSE TRUE

(* --------------------------- step: flipping ---------------------------- *)

\* variant: a run is flipped whether or not an own token closes it
RECURSIVE ray_m(_, _, _, _, _, _)
ray_m(board, player, coord, d, flip_coords, potential_flip) ==
    LET c == <<coord[1] + d[1], coord[2] + d[2]>>
    IN  IF _is_in_board(c) /\ board[c] = player * (-1)
        THEN ray_m(board, player, c, d, flip_coords \cup {c}, TRUE)
        ELSE flip_coords

\* one ray of the while loop: the cells direction d contributes to
\* accumulated_flip_coords (flip_coords when verified_flip, nothing otherwise)
RECURSIVE ray(_, _, _, _, _, _)
ray(board, player, coord, d, flip_coords, potential_flip) ==
    LET c == <<coord[1] + d[1], coord[2] + d[2]>>
    IN  IF _is_in_board(c)
        THEN IF ~potential_flip
             THEN IF board[c] = player * (-1)
                  THEN ray(board, player, c, d, flip_coords \cup {c}, TRUE)
                  ELSE {}
             ELSE IF board[c] = player * (-1)
                  THEN ray(board, player, c, d, flip_coords \cup {c}, TRUE)
                  ELSE IF board[c] = player
                       THEN flip_coords
                       ELSE {}
        ELSE {}

accumulated_flip_coords(board, player, action_coordinates) ==
    UNION {ray(board, player, action_coordinates, d, {}, FALSE) : d \in neighbours}

\* variant: the token is written to a copy of the board
placed_m(board, player, action) == board

\* the board with the token placed (the rays read this board)
placed(board, player, action) ==
    [board EXCEPT ![_idx2coordinate(action)] = player]

\* the board after the flips are written
flipped(board, player, flips) ==
    [c \in DOMAIN board |-> IF c \in flips THEN player ELSE board[c]]

\* variant: the turn is not handed over
next_player_m(player) == player

next_player(player) == player * (-1)

\* variant: any() instead of all()
done_of_m(board) == \E c \in DOMAIN board : board[c] # 0

done_of(board) == \A c \in DOMAIN board : board[c] # 0

sum1_of(board) == Cardinality({c \in DOMAIN board : board[c] = -1})

sum2_of(board) == Cardinality({c \in DOMAIN board : board[c] = 1})

\* variant: a tie at the end counts as a win of +1
reward_of_m(board) ==
    IF ~done_of(board) THEN sum2_of(board) - sum1_of(board)
    ELSE IF sum2_of(board) >= sum1_of(board) THEN 1000
    ELSE -1000

reward_of(board) ==
    IF ~done_of(board) THEN sum2_of(board) - sum1_of(board)
    ELSE IF sum2_of(board) > sum1_of(board) THEN 1000
    ELSE -1000

(* ------------------------------- reset --------------------------------- *)

\* variant: the fourth token is given to the wrong player
reset_state_m(n) ==
    LET p == n \div 2
    IN  [c \in (0 .. n - 1) \X (0 .. n - 1) |->
            IF c = <<p - 1, p - 1>> \/ c = <<p, p>> \/ c = <<p, p - 1>> THEN 1
            ELSE IF c = <<p - 1, p>> THEN -1
            ELSE 0]

reset_state(n) ==
    LET p == n \div 2
    IN  [c \in (0 .. n - 1) \X (0 .. n - 1) |->
            IF c = <<p - 1, p - 1>> \/ c = <<p, p>> THEN 1
            ELSE IF c = <<p - 1, p>> \/ c = <<p, p - 1>> THEN -1
            ELSE 0]

\* the sizes __init__ accepts
Sizes == {n \in 1 .. MaxN : n % 2 = 0 /\ n >= 4}

\* a local of play() that is not assigned yet
Unbound == [c \in {} |-> 0]

\* the caller holds no snapshot
NoSnap == [ref |-> "none", board |-> Unbound, writes |-> 0]

NoRet == [kind |-> "none", reward |-> 0, done |-> FALSE]

Init ==
    /\ N \in Sizes
    /\ state = reset_state(N)
    /\ cur_player \in Players
    /\ start_player = cur_player
    /\ ret = NoRet
    /\ last = [op |-> "init", action |-> 0, flips |-> {}, prior |-> 0]
    /\ accepted = 0
    /\ free = 0
    /\ pc = "start"
    /\ play_coord = <<0, 0>>
    /\ play_d = <<0, 0>>
    /\ play_st = Unbound
    /\ keys = 0
    /\ snap = NoSnap

(* ------------------------------ actions -------------------------------- *)

\* the caller's default move: the first Empty cell, in row-major order, that
\* touches a token (-1 when there is none)
FirstLegal ==
    LET cand == {a \in 0 .. (N * N - 1) :
                    /\ state[_idx2coordinate(a)] = Empty
                    /\ _has_occupied_neighbours(_idx2coordinate(a))}
    IN  IF cand = {} THEN -1 ELSE CHOOSE a \in cand : \A b \in cand : a <= b

\* variant: a rejected step still hands the turn over
step_False_m(action) ==
    /\ ~_is_legal_action(action)
    /\ ret' = [kind |-> "False", reward |-> 0, done |-> FALSE]
    /\ cur_player' = cur_player * (-1)
    /\ UNCHANGED <<N, state, last, start_player, accepted>>

\* step(action) on an illegal action: prints "Illegal action", returns False
step_False(action) ==
    /\ ~_is_legal_action(action)
    /\ ret' = [kind |-> "False", reward |-> 0, done |-> FALSE]
    /\ UNCHANGED <<N, state, cur_player, last, start_player, accepted>>

\* step(action) on a legal action: place, flip, hand over, score
step_outcome(action) ==
    /\ _is_legal_action(action)
    /\ LET board == placed(state, cur_player, action)
           flips == accumulated_flip_coords(board, cur_player, _idx2coordinate(action))
           new   == flipped(board, cur_player, flips)
       IN  /\ state' = new
           /\ cur_player' = next_player(cur_player)
           /\ ret' = [kind |-> "outcome", reward |-> reward_of(new), done |-> done_of(new)]
           /\ last' = [op |-> "step", action |-> action, flips |-> flips, prior |-> accepted]
    /\ accepted' = accepted + 1
    /\ UNCHANGED <<N, start_player>>

\* a caller of the environment submits an illegal action
StepRejected(action) ==
    /\ step_False(action)
    /\ UNCHANGED <<free, pc, play_coord, play_d, play_st, keys, snap>>

\* a caller of the environment submits a legal action
StepAccepted(action) ==
    /\ accepted < MaxSteps
    /\ action # FirstLegal => free < MaxFree
    /\ step_outcome(action)
    /\ free' = IF action # FirstLegal THEN free + 1 ELSE free
    /\ UNCHANGED <<pc, play_coord, play_d, play_st, keys, snap>>

\* reset(): a new board array, the four centre tokens, a random first player
reset_effect ==
    /\ state' = reset_state(N)
    /\ cur_player' \in Players
    /\ start_player' = cur_player'
    /\ ret' = NoRet
    /\ last' = [op |-> "reset", action |-> 0, flips |-> {}, prior |-> accepted]
    /\ accepted' = 0
    /\ free' = 0
    /\ UNCHANGED N

Reset ==
    /\ reset_effect
    /\ UNCHANGED <<pc, play_coord, play_d, play_st, keys, snap>>

Next ==
    \/ \E action \in Actions : StepRejected(action)
    \/ \E action \in Actions : StepAccepted(action)
    \/ Reset

Spec == Init /\ [][Next]_vars

(* --------------------------- legality queries -------------------------- *)

\* variant: the query tries the move on the board
IsLegalCall_m(action) ==
    /\ ret' = [kind |-> IF _is_legal_action(action) THEN "is_legal:True" ELSE "is_legal:False",
               reward |-> 0, done |-> FALSE]
    /\ state' = IF _is_legal_action(action) THEN placed(state, cur_player, action) ELSE state
    /\ UNCHANGED <<N, cur_player, last, start_player, accepted, free,
                   pc, play_coord, play_d, play_st, keys, snap>>

\* a caller asks _is_legal_action(action) and gets True or False
IsLegalCall(action) ==
    /\ ret' = [kind |-> IF _is_legal_action(action) THEN "is_legal:True" ELSE "is_legal:False",
               reward |-> 0, done |-> FALSE]
    /\ UNCHANGED <<N, state, cur_player, last, start_player, accepted, free,
                   pc, play_coord, play_d, play_st, keys, snap>>

QueryNext ==
    \/ \E action \in Actions : IsLegalCall(action)
    \/ Next

\* queries are explored on the board size of the script
QueryInit == Init /\ N = 4

QuerySpec == QueryInit /\ [][QueryNext]_vars

(* ------------------------- returned snapshots --------------------------- *)

\* step() returns np.asanyarray(self.state): for an ndarray that is the array
\* object self.state itself.  snap.ref tells which object the caller holds:
\* "self.state" (the engine's current array), "old" (the array self.state was
\* bound to before a reset()), "none".  The caller keeps the first snapshot
\* it is given.

\* the value a caller writes into a snapshot (it clears a cell)
WriteValues == {0}

\* an accepted step of a caller that keeps the returned snapshot
SnapStepAccepted(action) ==
    /\ accepted < MaxSnapSteps
    /\ action # FirstLegal => free < MaxFree
    /\ step_outcome(action)
    /\ free' = IF action # FirstLegal THEN free + 1 ELSE free
    /\ snap' = IF snap.ref = "none" \/ snap.ref = "self.state"
               THEN [ref |-> "self.state", board |-> state', writes |-> snap.writes]
               ELSE snap
    /\ UNCHANGED <<pc, play_coord, play_d, play_st, keys>>

\* a rejected step returns False; the held snapshot is not touched
SnapStepRejected(action) ==
    /\ step_False(action)
    /\ UNCHANGED <<free, pc, play_coord, play_d, play_st, keys, snap>>

\* reset() binds self.state to a new array; a held snapshot keeps the old one
SnapReset ==
    /\ reset_effect
    /\ snap' = IF snap.ref = "self.state" THEN [snap EXCEPT !.ref = "old"] ELSE snap
    /\ UNCHANGED <<pc, play_coord, play_d, play_st, keys>>

\* the caller assigns v to cell c of the snapshot it holds
CallerWrites(c, v) ==
    /\ snap.ref # "none"
    /\ snap.writes < MaxWrites
    /\ snap.board[c] # v
    /\ snap' = [snap EXCEPT !.board[c] = v, !.writes = snap.writes + 1]
    /\ state' = IF snap.ref = "self.state" THEN [state EXCEPT ![c] = v] ELSE state
    /\ UNCHANGED <<N, cur_player, ret, last, start_player, accepted, free,
                   pc, play_coord, play_d, play_st, keys>>

SnapNext ==
    \/ \E action \in Actions : SnapStepAccepted(action)
    \/ \E action \in Actions : SnapStepRejected(action)
    \/ SnapReset
    \/ \E c \in Coords, v \in WriteValues : CallerWrites(c, v)

\* snapshots are explored on the board size of the script
SnapInit == Init /\ N = 4

SnapSpec == SnapInit /\ [][SnapNext]_vars

(* ----------------------------- construction ---------------------------- *)

\* the sizes a caller constructs the environment with
SizeInputs == 0 .. MaxN

\* variant: only the lower bound of the size is asserted
size_ok_m(n) == n >= 4

\* the two assertions of __init__
size_ok(n) == n % 2 = 0 /\ n >= 4

\* before Reversi(N) is called there is no environment
NewInit ==
    /\ N = 0
    /\ state = Unbound
    /\ cur_player = 0
    /\ start_player = 0
    /\ ret = NoRet
    /\ last = [op |-> "none", action |-> 0, flips |-> {}, prior |-> 0]
    /\ accepted = 0
    /\ free = 0
    /\ pc = "new"
    /\ play_coord = <<0, 0>>
    /\ play_d = <<0, 0>>
    /\ play_st = Unbound
    /\ keys = 0
    /\ snap = NoSnap

\* Reversi(n) passes both assertions: the fields are set and reset() runs
ConstructOk(n) ==
    /\ pc = "new"
    /\ size_ok(n)
    /\ N' = n
    /\ state' = reset_state(n)
    /\ cur_player' \in Players
    /\ start_player' = cur_player'
    /\ last' = [op |-> "init", action |-> 0, flips |-> {}, prior |-> 0]
    /\ pc' = "start"
    /\ UNCHANGED <<ret, accepted, free, play_coord, play_d, play_st, keys, snap>>

\* Reversi(n) fails an assertion: AssertionError before any field is set
ConstructFails(n) ==
    /\ pc = "new"
    /\ ~size_ok(n)
    /\ pc' = "failed"
    /\ last' = [op |-> "AssertionError", action |-> n, flips |-> {}, prior |-> 0]
    /\ UNCHANGED <<N, state, cur_player, start_player, ret, accepted, free,
                   play_coord, play_d, play_st, keys, snap>>

NewNext ==
    \/ \E n \in SizeInputs : ConstructOk(n)
    \/ \E n \in SizeInputs : ConstructFails(n)
    \/ pc = "start" /\ Next

NewSpec == NewInit /\ [][NewNext]_vars

(* ------------------- play(interactive=True) and the script -------------- *)

Keys == {"UP", "DOWN", "LEFT", "RIGHT", "ENTER", "x"}

\* the cursor update at the top of the while loop of play(): where the cursor
\* ends and what is rendered when get_key() is called next
RECURSIVE cursor(_, _, _, _)
cursor(board, c, delta, shown) ==
    LET new_coord == <<c[1] + delta[1], c[2] + delta[2]>>
    IN  IF _is_in_board(new_coord)
        THEN IF ~(board[new_coord] = 0)
             THEN IF delta = <<0, 0>>
                  THEN [coord |-> new_coord, st |-> shown, hang |-> TRUE]
                  ELSE cursor(board, new_coord, delta, shown)
             ELSE [coord |-> new_coord,
                   st |-> [board EXCEPT ![new_coord] = 2],
                   hang |-> FALSE]
        ELSE [coord |-> c, st |-> shown, hang |-> FALSE]

\* np.argwhere(self.state == 0)[0]: the first Empty cell in row-major order
first_empty(board) ==
    CHOOSE c \in DOMAIN board :
        /\ board[c] = 0
        /\ \A e \in DOMAIN board :
              board[e] = 0 => _coordinate2idx(c) <= _coordinate2idx(e)

\* the delta an arrow key selects; any other key leaves it
delta_of(k, delta) ==
    IF k = "UP" THEN <<-1, 0>>
    ELSE IF k = "DOWN" THEN <<1, 0>>
    ELSE IF k = "LEFT" THEN <<0, -1>>
    ELSE IF k = "RIGHT" THEN <<0, 1>>
    ELSE delta

\* play(interactive=True) from its first line to its first get_key(), on board
enter_play(board) ==
    IF \A c \in DOMAIN board : board[c] # 0
    THEN /\ pc' = "crashed"
         /\ UNCHANGED <<play_coord, play_d, play_st>>
    ELSE LET cur == cursor(board, first_empty(board), <<0, 0>>, Unbound)
         IN  /\ pc' = IF cur.hang THEN "hung" ELSE "key"
             /\ play_coord' = cur.coord
             /\ play_d' = <<0, 0>>
             /\ play_st' = cur.st

\* game = Reversi(4); game.render(); the first play() up to get_key()
Begin ==
    /\ pc = "start"
    /\ enter_play(state)
    /\ UNCHANGED <<N, state, cur_player, ret, last, start_player, accepted, free, keys, snap>>

\* variant: st is the board itself, not a copy of it
KeyMove_m(k) ==
    /\ pc = "key"
    /\ k # "ENTER"
    /\ keys < MaxKeys
    /\ keys' = keys + 1
    /\ LET cur == cursor(state, play_coord, delta_of(k, play_d), play_st)
       IN  /\ pc' = IF cur.hang THEN "hung" ELSE "key"
           /\ play_coord' = cur.coord
           /\ play_d' = delta_of(k, play_d)
           /\ play_st' = cur.st
           /\ state' = cur.st
    /\ UNCHANGED <<N, cur_player, ret, last, start_player, accepted, free, snap>>

\* get_key() returns an arrow or another character: the cursor moves
KeyMove(k) ==
    /\ pc = "key"
    /\ k # "ENTER"
    /\ keys < MaxKeys
    /\ keys' = keys + 1
    /\ LET cur == cursor(state, play_coord, delta_of(k, play_d), play_st)
       IN  /\ pc' = IF cur.hang THEN "hung" ELSE "key"
           /\ play_coord' = cur.coord
           /\ play_d' = delta_of(k, play_d)
           /\ play_st' = cur.st
    /\ UNCHANGED <<N, state, cur_player, ret, last, start_player, accepted, free, snap>>

\* get_key() returns ENTER and step() rejects the cell: play() returns False
\* and the tuple assignment of the script raises TypeError
KeyEnterRejected ==
    /\ pc = "key"
    /\ step_False(_coordinate2idx(play_coord))
    /\ pc' = "crashed"
    /\ UNCHANGED <<free, play_coord, play_d, play_st, keys, snap>>

\* variant: the loop does not leave on done and calls play() again
KeyEnterAccepted_m ==
    /\ pc = "key"
    /\ step_outcome(_coordinate2idx(play_coord))
    /\ enter_play(state')
    /\ UNCHANGED <<free, keys, snap>>

\* get_key() returns ENTER and step() accepts the cell: the reward is printed,
\* the loop ends when done and calls play() again otherwise
KeyEnterAccepted ==
    /\ pc = "key"
    /\ step_outcome(_coordinate2idx(play_coord))
    /\ IF ret'.done
       THEN pc' = "stopped" /\ UNCHANGED <<play_coord, play_d, play_st>>
       ELSE enter_play(state')
    /\ UNCHANGED <<free, keys, snap>>

\* the script constructs the game with N = 4
LoopInit == Init /\ N = 4

LoopNext ==
    \/ Begin
    \/ \E k \in Keys : KeyMove(k)
    \/ KeyEnterRejected
    \/ KeyEnterAccepted

LoopSpec == LoopInit /\ [][LoopNext]_vars

(* ------------------------- play(interactive=False) ---------------------- *)

\* the characters typed in text mode
TextChars == {"A", "b", "G", "0", "1", "4", "7"}

RECURSIVE Strings(_)
Strings(n) ==
    IF n = 0 THEN {<< >>}
    ELSE LET shorter == Strings(n - 1)
         IN  shorter \cup {Append(u, ch) : u \in {v \in shorter : Len(v) = n - 1},
                                            ch \in TextChars}

\* the lines input() returns
TextInputs == Strings(MaxText)

\* str.upper() on one character
upper(ch) == IF ch = "b" THEN "B" ELSE ch

\* ord() on one character
ord(ch) ==
    CASE ch = "A" -> 65 [] ch = "B" -> 66 [] ch = "G" -> 71
      [] ch = "b" -> 98 [] ch = "0" -> 48 [] ch = "1" -> 49 [] ch = "4" -> 52
      [] ch = "7" -> 55

\* int() raises ValueError on the empty string and on a non-digit
int_raises(u) ==
    \/ Len(u) = 0
    \/ \E i \in 1 .. Len(u) : u[i] \notin {"0", "1", "4", "7"}

\* int() of a string of digits
RECURSIVE int(_)
int(u) ==
    IF Len(u) = 0 THEN 0
    ELSE 10 * int(SubSeq(u, 1, Len(u) - 1)) + (ord(u[Len(u)]) - 48)

\* variant: the column number is taken 0-based
text_col_m(u) == int(Tail(u))

\* col = int(uinput[1:]) - 1
text_col(u) == int(Tail(u)) - 1

\* row = ord(uinput[0].upper()) - ord('A')
text_row(u) == ord(upper(u[1])) - ord("A")

\* the try block of play(): an exception is raised (the empty line, a bad
\* number, a coordinate outside the board) and play() returns None
text_raises(u) ==
    IF Len(u) = 0 THEN TRUE
    ELSE IF int_raises(Tail(u)) THEN TRUE
    ELSE ~_is_in_board(<<text_row(u), text_col(u)>>)

\* action = self._coordinate2idx((row, col))
text_action(u) == _coordinate2idx(<<text_row(u), text_col(u)>>)

\* variant: a bad line costs the player the turn
PlayTextError_m(u) ==
    /\ text_raises(u)
    /\ ret' = [kind |-> "None", reward |-> 0, done |-> FALSE]
    /\ cur_player' = next_player(cur_player)
    /\ UNCHANGED <<N, state, last, start_player, accepted, free,
                   pc, play_coord, play_d, play_st, keys, snap>>

\* play() in text mode on a bad line: the exception is printed, None returned
PlayTextError(u) ==
    /\ text_raises(u)
    /\ ret' = [kind |-> "None", reward |-> 0, done |-> FALSE]
    /\ UNCHANGED <<N, state, cur_player, last, start_player, accepted, free,
                   pc, play_coord, play_d, play_st, keys, snap>>

\* play() in text mode on a good line whose cell step() rejects
PlayTextRejected(u) ==
    /\ ~text_raises(u)
    /\ StepRejected(text_action(u))

\* play() in text mode on a good line whose cell step() accepts
PlayTextAccepted(u) ==
    /\ ~text_raises(u)
    /\ StepAccepted(text_action(u))

\* a caller that uses play() in text mode and step() and reset() directly
TextNext ==
    \/ \E u \in TextInputs : PlayTextError(u)
    \/ \E u \in TextInputs : PlayTextRejected(u)
    \/ \E u \in TextInputs : PlayTextAccepted(u)
    \/ Next

\* text mode is explored on the board size of the script
TextInit == Init /\ N = 4

TextSpec == TextInit /\ [][TextNext]_vars

(* ============================== properties ============================= *)

EmptyCells(board) == {c \in DOMAIN board : board[c] = Empty}

OccupiedCells(board) == {c \in DOMAIN board : board[c] # Empty}

Tokens(board, player) == {c \in DOMAIN board : board[c] = player}

Abs(x) == IF x < 0 THEN -x ELSE x

\* c is one of the up-to-8 grid neighbours of t
Adjacent(t, c) == c # t /\ Abs(c[1] - t[1]) <= 1 /\ Abs(c[2] - t[2]) <= 1

\* the three conditions of legality, stated on the grid
LegalByRule(a) ==
    /\ 0 <= a /\ a < N * N
    /\ state[<<a \div N, a % N>>] = Empty
    /\ \E c \in Coords : Adjacent(<<a \div N, a % N>>, c) /\ state[c] # Empty

\* C1: is_legal(action) is true exactly when the action is in [0, N*N), its
\* cell is Empty and one of that cell's in-board neighbours is occupied.
C1_LegalIffRule == \A a \in Actions : _is_legal_action(a) <=> LegalByRule(a)

\* a rejected step on a board where out-of-range actions, occupied cells and
\* an empty cell without occupied neighbour are all illegal, and a legal cell exists
C1_Witness ==
    /\ ret.kind = "False"
    /\ ~_is_legal_action(-1) /\ ~_is_legal_action(N * N)
    /\ \E a \in 0 .. (N * N - 1) :
          state[_idx2coordinate(a)] = Empty /\ ~_is_legal_action(a)
    /\ \E a \in 0 .. (N * N - 1) :
          state[_idx2coordinate(a)] # Empty /\ ~_is_legal_action(a)
    /\ \E a \in 0 .. (N * N - 1) : _is_legal_action(a)

\* the cell k steps from t in direction <<dr, dc>>
Along(t, dr, dc, k) == <<t[1] + k * dr, t[2] + k * dc>>

\* the cells of the runs of opponent tokens that start next to t and are
\* closed by an in-board token of player p, on board
ClosedRuns(board, p, t) ==
    UNION {{Along(t, x[1], x[2], k) : k \in 1 .. x[3]} :
            x \in {y \in {-1, 0, 1} \X {-1, 0, 1} \X (1 .. N) :
                    /\ y[1] # 0 \/ y[2] # 0
                    /\ \A j \in 1 .. y[3] :
                          /\ Along(t, y[1], y[2], j) \in DOMAIN board
                          /\ board[Along(t, y[1], y[2], j)] = -p
                    /\ Along(t, y[1], y[2], y[3] + 1) \in DOMAIN board
                    /\ board[Along(t, y[1], y[2], y[3] + 1)] = p}}

\* C2: an accepted step puts the mover's token on the target cell and changes,
\* besides it, exactly the cells of the closed runs of the pre-move board,
\* all of which become the mover's.
C2_FlipsExactlyClosedRuns ==
    [][accepted' = accepted + 1 =>
          LET t    == <<last'.action \div N, last'.action % N>>
              p    == cur_player
              runs == ClosedRuns(state, p, t)
          IN  /\ state[t] = Empty
              /\ state'[t] = p
              /\ {c \in Coords \ {t} : state'[c] # state[c]} = runs
              /\ \A c \in runs : state'[c] = p]_vars

\* an accepted step that flipped cells in two different directions
C2_Witness ==
    /\ last.op = "step"
    /\ ret.kind = "outcome"
    /\ \E c1 \in last.flips, c2 \in last.flips :
          LET t == _idx2coordinate(last.action)
          IN  (c1[1] - t[1]) * (c2[2] - t[2]) # (c1[2] - t[2]) * (c2[1] - t[1])

\* C3: a step on an illegal action mutates nothing and returns failure:
\* a call that returns failure leaves board and player as they were, and a
\* call that changes either was made with an action legal before the call.
C3_RejectedStepMutatesNothing ==
    [][/\ ret'.kind = "False" => (state' = state /\ cur_player' = cur_player)
       /\ (last'.op = "step" /\ (state' # state \/ cur_player' # cur_player))
             => (LegalByRule(last'.action) /\ ret'.kind = "outcome")]_vars

\* a rejected step in a running game
C3_Witness == ret.kind = "False" /\ last.op = "step" /\ accepted >= 1

\* C5: the player changes at each accepted step and at no rejected one, so
\* after k accepted steps it is the starting player iff k is even.
C5_PlayerAlternates ==
    /\ [](cur_player = IF accepted % 2 = 0 THEN start_player ELSE -start_player)
    /\ [][/\ accepted' = accepted + 1 => cur_player' = -cur_player
          /\ ret'.kind = "False" => cur_player' = cur_player]_vars

\* a rejected step after three accepted ones
C5_Witness == accepted = 3 /\ ret.kind = "False" /\ cur_player = -start_player

\* C6: the terminal flag of an accepted step is true iff the board has no
\* Empty cell after the step.
C6_DoneIffFull ==
    ret.kind = "outcome" => (ret.done <=> Cardinality(EmptyCells(state)) = 0)

\* the step that filled the last Empty cell
C6_Witness == ret.kind = "outcome" /\ ret.done /\ last.op = "step"

C8_TerminalAbsorbing ==
    /\ [](EmptyCells(state) = {} => \A a \in Actions : ~_is_legal_action(a))
    /\ [][EmptyCells(state) = {} =>
             \/ ret'.kind = "False" /\ state' = state /\ cur_player' = cur_player
             \/ last'.op = "reset" /\ accepted' = 0]_vars

\* a step rejected on the full board
C8_Witness == EmptyCells(state) = {} /\ ret.kind = "False"

\* C9: after construction and after every reset the board holds 4 tokens and
\* N*N-4 Empty cells, the two diagonals of the centre belong to different
\* players and the current player is a player.
C9_ResetBoard ==
    last.op \in {"init", "reset"} =>
        LET p == N \div 2
        IN  /\ N % 2 = 0 /\ N >= 4
            /\ Cardinality(OccupiedCells(state)) = 4
            /\ Cardinality(EmptyCells(state)) = N * N - 4
            /\ state[<<p - 1, p - 1>>] \in Players
            /\ state[<<p, p>>] = state[<<p - 1, p - 1>>]
            /\ state[<<p - 1, p>>] = -state[<<p, p>>]
            /\ state[<<p, p - 1>>] = state[<<p - 1, p>>]
            /\ cur_player \in Players

\* a reset of a finished game
C9_Witness == last.op = "reset" /\ last.prior = N * N - 4

\* C10: an accepted step removes exactly one Empty cell, and between resets
\* no occupied cell becomes Empty.
C10_OccupancyGrows ==
    [][/\ accepted' = accepted + 1 =>
             Cardinality(EmptyCells(state')) = Cardinality(EmptyCells(state)) - 1
       /\ last'.op = "step" => OccupiedCells(state) \subseteq OccupiedCells(state')]_vars

\* an accepted step that flipped tokens
C10_Witness == last.op = "step" /\ ret.kind = "outcome" /\ last.flips # {}

\* C4: in the turn loop an illegal move never crashes or ends the session:
\* the script never dies of an exception, and the call that rejects a move
\* leaves the loop waiting for the same player's next input.
C4_IllegalMoveKeepsSession ==
    pc # "crashed"

\* C11: constructing with an odd size or a size below 4 fails and creates no
\* board and no current player; constructing with an even size >= 4 succeeds.
C11_ConstructionChecksSize ==
    [][pc = "new" =>
          \/ /\ pc' = "failed"
             /\ last'.action % 2 = 1 \/ last'.action < 4
             /\ N' = 0 /\ DOMAIN state' = {} /\ cur_player' \notin Players
          \/ /\ pc' = "start"
             /\ N' % 2 = 0 /\ N' >= 4
             /\ DOMAIN state' = (0 .. N' - 1) \X (0 .. N' - 1)
             /\ cur_player' \in Players]_vars

\* a failed construction with an odd size above 4
C11_Witness == pc = "failed" /\ last.action = 5 /\ N = 0

\* C12: index and coordinate conversion are inverse bijections between
\* [0, N*N) and the in-board cells, in row-major order.
C12_ConversionBijection ==
    /\ \A i \in 0 .. (N * N - 1) :
          /\ _idx2coordinate(i) \in Coords
          /\ _coordinate2idx(_idx2coordinate(i)) = i
    /\ \A rc \in Coords :
          /\ _coordinate2idx(rc) \in 0 .. (N * N - 1)
          /\ _idx2coordinate(_coordinate2idx(rc)) = rc
          /\ _coordinate2idx(rc) = rc[1] * N + rc[2]
    /\ \A i \in 0 .. (N * N - 1), j \in 0 .. (N * N - 1) :
          _idx2coordinate(i) = _idx2coordinate(j) => i = j

\* an accepted step on a cell off the diagonal of the 6x6 board, placed where
\* the conversion says
C12_Witness ==
    /\ N = 6 /\ last.op = "step"
    /\ _idx2coordinate(last.action)[1] # _idx2coordinate(last.action)[2]
    /\ state[_idx2coordinate(last.action)] = -cur_player

\* the row a letter names: A = 0, B = 1, ..., in either case
LetterRow == [ch \in {"A", "b", "G"} |-> IF ch = "A" THEN 0 ELSE IF ch = "b" THEN 1 ELSE 6]

\* 10 to the power k
RECURSIVE Pow10(_)
Pow10(k) == IF k = 0 THEN 1 ELSE 10 * Pow10(k - 1)

\* the digits a numeral is made of
DigitValue ==
    [ch \in {"0", "1", "4", "7"} |->
        IF ch = "0" THEN 0 ELSE IF ch = "1" THEN 1 ELSE IF ch = "4" THEN 4 ELSE 7]

\* the sum of digit * 10^position over the positions from ... to the end
RECURSIVE Positional(_, _)
Positional(u, from) ==
    IF from > Len(u) THEN 0
    ELSE DigitValue[u[from]] * Pow10(Len(u) - from) + Positional(u, from + 1)

\* the line u names the in-board cell <<r, c>>: a letter for row r, then a
\* numeral for column c + 1
Names(u, r, c) ==
    /\ Len(u) >= 2
    /\ u[1] \in DOMAIN LetterRow /\ LetterRow[u[1]] = r
    /\ \A i \in 2 .. Len(u) : u[i] \in DOMAIN DigitValue
    /\ Positional(u, 2) = c + 1

\* C13: in text mode a line that does not parse to an in-board cell is an
\* input error that leaves board and player as they were and attempts no
\* step, and a line that names the in-board cell (row, col) is submitted as
\* action row * N + col.
C13_TextInput ==
    /\ [](\A u \in TextInputs :
             /\ text_raises(u) <=> ~(\E rc \in Coords : Names(u, rc[1], rc[2]))
             /\ \A rc \in Coords :
                   Names(u, rc[1], rc[2]) => text_action(u) = rc[1] * N + rc[2])
    /\ [][ret'.kind = "None" =>
             /\ state' = state /\ cur_player' = cur_player
             /\ last' = last /\ accepted' = accepted]_vars

\* a bad line typed in a running game
C13_Witness == ret.kind = "None" /\ accepted >= 1 /\ last.op = "step"

\* C14: every cell of the board holds -1, 0 or +1; the cursor mark 2 is
\* written to the rendered copy only, and a key that moves the cursor changes
\* neither the board nor the current player.
C14_BoardValues ==
    /\ [](\A c \in DOMAIN state : state[c] \in {-1, 0, 1})
    /\ [][keys' = keys + 1 => (state' = state /\ cur_player' = cur_player)]_vars

\* the cursor was moved and the rendered copy carries the mark on a cell that
\* is Empty on the board
C14_Witness ==
    /\ pc = "key" /\ keys >= 1 /\ play_d # <<0, 0>>
    /\ \E c \in DOMAIN play_st : play_st[c] = 2 /\ state[c] = 0

\* C15: in cursor mode the cell ENTER would submit is always an in-board
\* Empty cell and is the cell shown with the cursor mark.
C15_CursorOnEmptyCell ==
    pc = "key" =>
        /\ play_coord \in Coords
        /\ state[play_coord] = Empty
        /\ play_st[play_coord] = 2

\* the cells other than t whose value differs between two boards
ChangedCells(before, after, t) ==
    {c \in DOMAIN before \ {t} : after[c] # before[c]}

\* C16: on the 4x4 initial board action 1 (cell (0,1)) is legal for either
\* player; played by the owner of (1,2) and (2,1) it flips exactly (1,1);
\* played by the owner of (1,1) and (2,2) it is accepted and flips nothing.
C16_FirstMoveScenario ==
    /\ []((N = 4 /\ accepted = 0) => _is_legal_action(1))
    /\ [][(N = 4 /\ accepted = 0 /\ accepted' = 1 /\ last'.action = 1) =>
             /\ state'[<<0, 1>>] = cur_player
             /\ cur_player = state[<<1, 2>>] =>
                   /\ state[<<2, 1>>] = cur_player
                   /\ ChangedCells(state, state', <<0, 1>>) = {<<1, 1>>}
                   /\ state'[<<1, 1>>] = cur_player
             /\ cur_player = state[<<1, 1>>] =>
                   /\ state[<<2, 2>>] = cur_player
                   /\ ChangedCells(state, state', <<0, 1>>) = {}]_vars

\* the first move of a 4x4 game was cell (0,1), played by the owner of (1,1)
\* and (2,2), and captured nothing
C16_Witness ==
    /\ N = 4 /\ accepted = 1 /\ last.op = "step" /\ last.action = 1
    /\ state[<<0, 1>>] = state[<<1, 1>>] /\ state[<<1, 1>>] = state[<<2, 2>>]
    /\ state[<<1, 2>>] = -state[<<0, 1>>] /\ state[<<2, 1>>] = -state[<<0, 1>>]
    /\ last.flips = {}

\* C17: a legality query changes neither the board nor the current player,
\* and as long as no step is accepted and no reset happens the answer for
\* every action stays the same.
C17_IsLegalPure ==
    /\ [][ret'.kind \in {"is_legal:True", "is_legal:False"} =>
             (state' = state /\ cur_player' = cur_player /\ N' = N)]_vars
    /\ [][(accepted' = accepted /\ last' = last) =>
             \/ state' = state /\ N' = N
             \/ \A a \in Actions : LegalByRule(a)' <=> LegalByRule(a)]_vars

\* a query answered True and a query answered False in a running game
C17_Witness ==
    /\ ret.kind = "is_legal:True" /\ accepted >= 2
    /\ \E a \in Actions : ~_is_legal_action(a)

\* C18: the snapshot an accepted step returns is a copy: a later accepted
\* step or reset does not change a snapshot returned before, and a caller
\* writing into a snapshot does not change the engine's board.
C18_SnapshotIsCopy ==
    [][/\ (snap.ref # "none" /\ (accepted' = accepted + 1 \/ last'.op = "reset"))
             => snap'.board = snap.board
       /\ snap'.writes = snap.writes + 1 => state' = state]_vars

\* C19: as long as the board has an Empty cell some action is legal; the
\* only states without a legal action are those with a full board.
C19_LegalMoveUntilFull ==
    (\A a \in Actions : ~_is_legal_action(a)) <=> EmptyCells(state) = {}

\* one Empty cell is left and it can be played
C19_Witness ==
    /\ Cardinality(EmptyCells(state)) = 1
    /\ last.op = "step"
    /\ \E a \in Actions : _is_legal_action(a)

\* C20: after k accepted steps the board holds 4 + k tokens, the terminal
\* flag is reported by the (N*N-4)-th accepted step and by no earlier one,
\* and a turn loop that, while the board has an Empty cell, never waits
\* forever at the same number of accepted moves (a legal move is always
\* submitted eventually) does stop.
C20_GameLength ==
    /\ [](Cardinality(OccupiedCells(state)) = 4 + accepted)
    /\ [](ret.kind = "outcome" => (ret.done <=> accepted = N * N - 4))
    /\ [](pc = "stopped" => accepted = N * N - 4)
    /\ (\A k \in 0 .. MaxSteps : []<>(accepted # k \/ accepted >= N * N - 4))
          => <>(pc = "stopped")

\* the loop stopped after the 12th accepted step of the 4x4 game
C20_Witness == pc = "stopped" /\ accepted = N * N - 4 /\ ret.done

====
